---- MODULE Spec2Model ----
(***************************************************************************)
(* The threaded-comment subsystem of src/graphql/resolvers.js: comments    *)
(* are flat records with parent pointers in one collection (the Comment    *)
(* model of src/models/comment.js); the resolvers read, create, edit,      *)
(* like and delete them.                                                   *)
(*                                                                         *)
(* Spec     : requests are served one after the other; one action is one   *)
(*            whole resolver call.                                         *)
(* ConcSpec : MaxProcs requests are in flight at once; one action is what  *)
(*            a resolver does between two awaits on the comments           *)
(*            collection.                                                  *)
(***************************************************************************)
EXTENDS Integers, Sequences, FiniteSets, TLC

\* ---------------------------------------------------------------- bounds
\* Number of comment documents ever inserted in one behaviour.
MaxComments == 3
\* Number of requests in flight at once (ConcSpec).
MaxProcs == 2

\* ------------------------------------------------------------- constants
\* parentId: { default: null }
Null == 0

\* User documents in the users collection.
Users == {1, 2}
\* Post documents in the posts collection.
Posts == {1, 2}
\* Post ids a caller may send: the existing posts and one id no post has.
PostIds == Posts \cup {3}
\* An ObjectId that is well-formed but that no comment ever gets.
GhostId == MaxComments + 1

\* Request contexts built by the auth middleware: isAuth, userId.
Anon == [isAuth |-> FALSE, userId |-> Null]
Auth(u) == [isAuth |-> TRUE, userId |-> u]
Contexts == {Anon} \cup {Auth(u) : u \in Users}

VARIABLES
    comments,   \* the comments collection: _id -> document
    nextId,     \* the next fresh _id (ObjectIds are never reused)
    last,       \* the last request served and its outcome
    pre,        \* the comments collection when that request arrived
    prevLike,   \* the request served before it, if a successful likeComment
    workload,   \* which requests the clients of this behaviour send
    procs,      \* ConcSpec: the requests in flight, one per connection
    users       \* the users collection: the _ids of its documents

vars == <<comments, nextId, last, pre, prevLike, workload, procs, users>>

\* ------------------------------------------------------------ String.trim
RECURSIVE TrimStart(_)
TrimStart(s) ==
    IF s = << >> THEN s
    ELSE IF Head(s) = " " THEN TrimStart(Tail(s)) ELSE s

RECURSIVE TrimEnd(_)
TrimEnd(s) ==
    IF s = << >> THEN s
    ELSE IF s[Len(s)] = " " THEN TrimEnd(SubSeq(s, 1, Len(s) - 1)) ELSE s

Trim(s) == TrimEnd(TrimStart(s))

\* Mutant: only the empty string is refused.
IsEmptyOnly(content) == content = << >>

\* !content || !content.trim()
IsBlank(content) == content = << >> \/ Trim(content) = << >>

\* ------------------------------------------------------ the record store
\* Comment.findById(id) resolves to a document or to null.
Exists(store, id) == id \in DOMAIN store

\* Mutant: the count of the whole subtree below parentId.
RECURSIVE CountSubtree(_, _)
CountSubtree(store, parentId) ==
    LET kids == {c \in DOMAIN store : store[c].parentId = parentId}
        Sum[S \in SUBSET kids] ==
            IF S = {} THEN 0
            ELSE LET k == CHOOSE x \in S : TRUE
                 IN  1 + CountSubtree(store, k) + Sum[S \ {k}]
    IN  Sum[kids]

\* Comment.countDocuments({ parentId })
CountByParent(store, parentId) ==
    Cardinality({c \in DOMAIN store : store[c].parentId = parentId})

\* Mutant: the count of every comment of the post, replies included.
CountAllOfPost(store, postId) ==
    Cardinality({c \in DOMAIN store : store[c].post = postId})

\* Comment.countDocuments({ post, parentId: null })
CountTopLevel(store, postId) ==
    Cardinality({c \in DOMAIN store :
                    store[c].post = postId /\ store[c].parentId = Null})

\* new Comment({...}).save(): insert under a fresh _id, timestamps: true.
Insert(store, id, doc) ==
    [c \in DOMAIN store \cup {id} |-> IF c = id THEN doc ELSE store[c]]

\* Comment.deleteMany({ _id: { $in: ids } }) / findByIdAndDelete(id)
DeleteIds(store, ids) ==
    [c \in DOMAIN store \ ids |-> store[c]]

\* Set of the elements of a sequence.
Range(s) == {s[i] : i \in 1..Len(s)}

\* Ascending sequence of a finite set of integers (the order a query
\* without sort returns documents in: insertion order).
RECURSIVE Ascending(_)
Ascending(S) ==
    IF S = {} THEN << >>
    ELSE LET m == CHOOSE x \in S : \A y \in S : x <= y
         IN  <<m>> \o Ascending(S \ {m})

\* Descending sequence of a finite set of integers.
RECURSIVE Descending(_)
Descending(S) ==
    IF S = {} THEN << >>
    ELSE LET m == CHOOSE x \in S : \A y \in S : x >= y
         IN  <<m>> \o Descending(S \ {m})

\* ------------------------------------------------------- MongooseArray
\* Mutant: a strict comparison of a string with ObjectIds never matches.
NeverIncludes(likes, u) == FALSE

\* comment.likes.includes(userId)
ArrayIncludes(likes, u) == \E i \in 1..Len(likes) : likes[i] = u

\* comment.likes.push(userId) on the loaded document
ArrayPush(likes, u) == Append(likes, u)

\* comment.likes.pull(userId) on the loaded document: every occurrence goes
ArrayPull(likes, u) == SelectSeq(likes, LAMBDA x : x # u)

\* Mutant: the update writes the likes anew, with the one user.
SavePushReplacing(store, id, u) ==
    [store EXCEPT ![id].likes = <<u>>]

\* comment.save() after likes.push(u): the update { $push: { likes: u } }
SavePush(store, id, u) ==
    [store EXCEPT ![id].likes = Append(@, u)]

\* Mutant: the update removes the last element of likes, whoever it is.
SavePop(store, id, u) ==
    [store EXCEPT ![id].likes = SubSeq(@, 1, Len(@) - 1)]

\* comment.save() after likes.pull(u): the update { $pullAll: { likes: [u] } }
SavePull(store, id, u) ==
    [store EXCEPT ![id].likes = SelectSeq(@, LAMBDA x : x # u)]

\* Mutant: the update is applied to every comment of the same creator.
SaveContentOfCreator(store, id, content) ==
    [c \in DOMAIN store |->
        IF store[c].creator = store[id].creator
        THEN [store[c] EXCEPT !.content = content]
        ELSE store[c]]

\* comment.save() after comment.content = ...: the update { $set: { content } }
SaveContent(store, id, content) ==
    [store EXCEPT ![id].content = content]

\* ------------------------------------------------------- users
\* User.findById(id) resolves to a document or to null.
UserExists(u) == u \in users

\* A populated creator: the selected fields of the user document.
UserDoc(u) == [_id |-> u, name |-> "user"]

\* The fallback creator { _id: 'deleted', name: 'Deleted User', ... }; Null
\* stands for the id 'deleted', which no user has.
DeletedUser == [_id |-> Null, name |-> "Deleted User"]

\* c.creator after populate('creator') and the fallback of the mappers:
\* populate leaves null where no user document has the id.
MapCreator(u) == IF UserExists(u) THEN UserDoc(u) ELSE DeletedUser

\* c.likes after populate('likes'): ids that no user document has drop out.
PopulateLikes(likes) == SelectSeq(likes, UserExists)

\* ------------------------------------------------------- outcomes
Throw(store, message) == [store |-> store, error |-> message, result |-> Null]
Return(store, value) == [store |-> store, error |-> "", result |-> value]

\* The TypeError of c.creator._id where populate left c.creator null.
NullCreator == "Cannot read properties of null (reading '_id')"

\* ------------------------------------------------------- mapCommentData
MapCommentData(store, id, doc) ==
    [_id          |-> id,
     content      |-> doc.content,
     post         |-> doc.post,
     parentId     |-> doc.parentId,
     creator      |-> MapCreator(doc.creator),
     createdAt    |-> doc.createdAt,
     likes        |-> PopulateLikes(doc.likes),
     likesCount   |-> Len(PopulateLikes(doc.likes)),
     replies      |-> << >>,
     repliesCount |-> CountByParent(store, id)]

\* ------------------------------------------------------- resolvers
\* Mutant: the response is mapped from the document as it was loaded.
LikeCommentStale(store, ctx, commentId) ==
    IF ~ctx.isAuth THEN Throw(store, "Not authenticated!")
    ELSE IF ~Exists(store, commentId) THEN Throw(store, "Comment not found!")
    ELSE LET comment == store[commentId]
             saved   == IF ArrayIncludes(comment.likes, ctx.userId) THEN store
                        ELSE SavePush(store, commentId, ctx.userId)
         IN  Return(saved, MapCommentData(saved, commentId, comment))

LikeComment(store, ctx, commentId) ==
    IF ~ctx.isAuth THEN Throw(store, "Not authenticated!")
    ELSE IF ~Exists(store, commentId) THEN Throw(store, "Comment not found!")
    ELSE LET comment == store[commentId]
             liked   == ArrayIncludes(comment.likes, ctx.userId)
             doc     == IF liked THEN comment
                        ELSE [comment EXCEPT !.likes = ArrayPush(@, ctx.userId)]
             saved   == IF liked THEN store
                        ELSE SavePush(store, commentId, ctx.userId)
         IN  Return(saved, MapCommentData(saved, commentId, doc))

UnlikeComment(store, ctx, commentId) ==
    IF ~ctx.isAuth THEN Throw(store, "Not authenticated!")
    ELSE IF ~Exists(store, commentId) THEN Throw(store, "Comment not found!")
    ELSE LET comment == store[commentId]
             doc     == [comment EXCEPT !.likes = ArrayPull(@, ctx.userId)]
             saved   == SavePull(store, commentId, ctx.userId)
         IN  Return(saved, MapCommentData(saved, commentId, doc))

\* Mutant: a reply to a comment of another post is refused.
AddReplySamePost(store, id, ctx, postId, commentId, content) ==
    IF ~ctx.isAuth THEN Throw(store, "Not authenticated!")
    ELSE IF IsBlank(content) THEN Throw(store, "Reply cannot be empty!")
    ELSE IF ~UserExists(ctx.userId) THEN Throw(store, "User not found!")
    ELSE IF ~Exists(store, commentId) THEN Throw(store, "Parent comment not found!")
    ELSE IF store[commentId].post # postId THEN Throw(store, "Parent comment not found!")
    ELSE LET reply == [content   |-> Trim(content),
                       post      |-> postId,
                       parentId  |-> commentId,
                       creator   |-> ctx.userId,
                       likes     |-> << >>,
                       createdAt |-> id]
             saved == Insert(store, id, reply)
         IN  Return(saved, MapCommentData(saved, id, reply))

AddReply(store, id, ctx, postId, commentId, content) ==
    IF ~ctx.isAuth THEN Throw(store, "Not authenticated!")
    ELSE IF IsBlank(content) THEN Throw(store, "Reply cannot be empty!")
    ELSE IF ~UserExists(ctx.userId) THEN Throw(store, "User not found!")
    ELSE IF ~Exists(store, commentId) THEN Throw(store, "Parent comment not found!")
    ELSE LET reply == [content   |-> Trim(content),
                       post      |-> postId,
                       parentId  |-> commentId,
                       creator   |-> ctx.userId,
                       likes     |-> << >>,
                       createdAt |-> id]
             saved == Insert(store, id, reply)
         IN  Return(saved, MapCommentData(saved, id, reply))

AddComment(store, id, ctx, commentInput) ==
    IF ~ctx.isAuth THEN Throw(store, "Not authenticated!")
    ELSE IF IsBlank(commentInput.content) THEN Throw(store, "Comment cannot be empty!")
    ELSE IF commentInput.postId \notin Posts THEN Throw(store, "Post not found!")
    ELSE IF ~UserExists(ctx.userId) THEN Throw(store, "User not found!")
    ELSE LET comment == [content   |-> Trim(commentInput.content),
                         post      |-> commentInput.postId,
                         creator   |-> ctx.userId,
                         parentId  |-> commentInput.parentId,
                         likes     |-> << >>,
                         createdAt |-> id]
             saved == Insert(store, id, comment)
         IN  Return(saved, MapCommentData(saved, id, comment))

\* Mutant: the creator test is left out.
UpdateCommentAnyUser(store, ctx, commentId, content) ==
    IF ~ctx.isAuth THEN Throw(store, "Not authenticated!")
    ELSE IF IsBlank(content) THEN Throw(store, "Comment cannot be empty!")
    ELSE IF ~Exists(store, commentId) THEN Throw(store, "Comment not found!")
    ELSE LET doc   == [store[commentId] EXCEPT !.content = Trim(content)]
             saved == SaveContent(store, commentId, Trim(content))
         IN  Return(saved, MapCommentData(saved, commentId, doc))

UpdateComment(store, ctx, commentId, content) ==
    IF ~ctx.isAuth THEN Throw(store, "Not authenticated!")
    ELSE IF IsBlank(content) THEN Throw(store, "Comment cannot be empty!")
    ELSE IF ~Exists(store, commentId) THEN Throw(store, "Comment not found!")
    ELSE IF ~UserExists(store[commentId].creator) THEN Throw(store, NullCreator)
    ELSE IF store[commentId].creator # ctx.userId THEN Throw(store, "Not authorized!")
    ELSE LET doc   == [store[commentId] EXCEPT !.content = Trim(content)]
             saved == SaveContent(store, commentId, Trim(content))
         IN  Return(saved, MapCommentData(saved, commentId, doc))

\* Mutant: the collection stops at the immediate children.
ChildrenOnlyIds(store, parentId) ==
    Ascending({c \in DOMAIN store : store[c].parentId = parentId})

\* Mutant: the loop adds the child again before the ids below it.
RECURSIVE DescendantIdsRepeated(_, _)
DescendantIdsRepeated(store, parentId) ==
    LET children == Ascending({c \in DOMAIN store : store[c].parentId = parentId})
        Collect[i \in 0..Len(children)] ==
            IF i = 0 THEN children
            ELSE Collect[i - 1] \o <<children[i]>>
                     \o DescendantIdsRepeated(store, children[i])
    IN  Collect[Len(children)]

\* const getAllDescendantIds = async (parentId) => ...
RECURSIVE GetAllDescendantIds(_, _)
GetAllDescendantIds(store, parentId) ==
    LET children == Ascending({c \in DOMAIN store : store[c].parentId = parentId})
        Collect[i \in 0..Len(children)] ==
            IF i = 0 THEN children
            ELSE Collect[i - 1] \o GetAllDescendantIds(store, children[i])
    IN  Collect[Len(children)]

\* Mutant: the creator test is skipped for a comment that was not found, and
\* the deletes that follow match nothing.
DeleteCommentUnchecked(store, ctx, commentId) ==
    IF ~ctx.isAuth THEN Throw(store, "Not authenticated!")
    ELSE IF ~Exists(store, commentId) THEN Return(store, TRUE)
    ELSE IF ~UserExists(store[commentId].creator) THEN Throw(store, NullCreator)
    ELSE IF store[commentId].creator # ctx.userId THEN Throw(store, "Not authorized!")
    ELSE LET descendantIds == GetAllDescendantIds(store, commentId)
         IN  Return(DeleteIds(store, Range(descendantIds) \cup {commentId}), TRUE)

DeleteComment(store, ctx, commentId) ==
    IF ~ctx.isAuth THEN Throw(store, "Not authenticated!")
    ELSE IF ~Exists(store, commentId) THEN Throw(store, "Comment not found!")
    ELSE IF ~UserExists(store[commentId].creator) THEN Throw(store, NullCreator)
    ELSE IF store[commentId].creator # ctx.userId THEN Throw(store, "Not authorized!")
    ELSE LET descendantIds == GetAllDescendantIds(store, commentId)
             afterMany == IF Len(descendantIds) > 0
                          THEN DeleteIds(store, Range(descendantIds))
                          ELSE store
         IN  Return(DeleteIds(afterMany, {commentId}), TRUE)

\* ------------------------------------------------------- tree reads
\* Mutant: .sort({ createdAt: 1 }), oldest first.
RECURSIVE SortByCreatedAtAsc(_, _)
SortByCreatedAtAsc(store, S) ==
    IF S = {} THEN << >>
    ELSE LET m == CHOOSE x \in S :
                    \A y \in S : store[x].createdAt <= store[y].createdAt
         IN  <<m>> \o SortByCreatedAtAsc(store, S \ {m})

\* .sort({ createdAt: -1 }) of the documents with the ids in S
RECURSIVE SortByCreatedAtDesc(_, _)
SortByCreatedAtDesc(store, S) ==
    IF S = {} THEN << >>
    ELSE LET m == CHOOSE x \in S :
                    \A y \in S : store[x].createdAt >= store[y].createdAt
         IN  <<m>> \o SortByCreatedAtDesc(store, S \ {m})

\* Mutant: the limit is taken as the end position, as in slice(skip, limit).
SliceToLimit(seq, skip, limit) ==
    SubSeq(seq, skip + 1, IF limit < Len(seq) THEN limit ELSE Len(seq))

\* .skip(skip).limit(limit) of a query result
SkipLimit(seq, skip, limit) ==
    SubSeq(seq, skip + 1, IF skip + limit < Len(seq) THEN skip + limit ELSE Len(seq))

\* Mutant: the replies are mapped without their own replies.
GetRepliesOneLevel(store, parentId) ==
    LET replies == SortByCreatedAtDesc(store,
                       {c \in DOMAIN store : store[c].parentId = parentId})
    IN  [i \in 1..Len(replies) |->
            [MapCommentData(store, replies[i], store[replies[i]])
                EXCEPT !.creator = MapCreator(store[replies[i]].creator)]]

RECURSIVE GetRepliesRecursive(_, _)
GetRepliesRecursive(store, parentId) ==
    LET replies == SortByCreatedAtDesc(store,
                       {c \in DOMAIN store : store[c].parentId = parentId})
    IN  [i \in 1..Len(replies) |->
            LET r == replies[i] IN
            [_id          |-> r,
             content      |-> store[r].content,
             post         |-> store[r].post,
             parentId     |-> store[r].parentId,
             creator      |-> MapCreator(store[r].creator),
             createdAt    |-> store[r].createdAt,
             likes        |-> PopulateLikes(store[r].likes),
             likesCount   |-> Len(PopulateLikes(store[r].likes)),
             replies      |-> GetRepliesRecursive(store, r),
             repliesCount |-> CountByParent(store, r)]]

\* The mapper of the top-level comments reads c.creator._id without a
\* fallback: one comment whose creator is no user rejects the Promise.all.
GetNestedComments(store, postId) ==
    LET topComments == SortByCreatedAtDesc(store,
                           {c \in DOMAIN store :
                               store[c].post = postId /\ store[c].parentId = Null})
    IN  IF \E i \in 1..Len(topComments) : ~UserExists(store[topComments[i]].creator)
        THEN Throw(store, NullCreator)
        ELSE Return(store,
               [i \in 1..Len(topComments) |->
                  LET c == topComments[i] IN
                  [_id          |-> c,
                   content      |-> store[c].content,
                   post         |-> store[c].post,
                   parentId     |-> store[c].parentId,
                   creator      |-> UserDoc(store[c].creator),
                   createdAt    |-> store[c].createdAt,
                   likes        |-> PopulateLikes(store[c].likes),
                   likesCount   |-> Len(PopulateLikes(store[c].likes)),
                   replies      |-> GetRepliesRecursive(store, c),
                   repliesCount |-> CountByParent(store, c)]])

\* mapPostData, as far as the comments are concerned
MapPostData(store, postId) ==
    [_id |-> postId, commentsCount |-> CountTopLevel(store, postId), comments |-> << >>]

PostQuery(store, ctx, id) ==
    IF ~ctx.isAuth THEN Throw(store, "Not authenticated!")
    ELSE IF id \notin Posts THEN Throw(store, "No post found!")
    ELSE LET mappedPost == MapPostData(store, id)
             nested == GetNestedComments(store, id)
         IN  IF nested.error # "" THEN nested
             ELSE Return(store, [mappedPost EXCEPT
                                    !.comments = nested.result,
                                    !.commentsCount = Len(nested.result)])

\* posts({ page = 1, limit = 5 }) with both arguments left out: every post,
\* newest first, each through mapPostData.
PostsQuery(store, ctx) ==
    IF ~ctx.isAuth THEN Throw(store, "Not authenticated!")
    ELSE LET posts == Descending(Posts)
         IN  Return(store, [posts      |-> [i \in 1..Len(posts) |->
                                              MapPostData(store, posts[i])],
                            totalPosts |-> Cardinality(Posts)])

CommentsQuery(store, ctx, postId) ==
    IF ~ctx.isAuth THEN Throw(store, "Not authenticated!")
    ELSE GetNestedComments(store, postId)

RepliesQuery(store, ctx, commentId) ==
    IF ~ctx.isAuth THEN Throw(store, "Not authenticated!")
    ELSE Return(store, GetRepliesRecursive(store, commentId))

\* { postId, page = 1, limit = 5 }: the defaults of the paginated resolvers.
DefaultPage == 1
DefaultLimit == 5

\* A default parameter: the default stands in for an argument left out
\* (Null stands for undefined).
OrDefault(arg, default) == IF arg = Null THEN default ELSE arg

\* Mutant: the page that ends exactly at the last item reports more.
HasMoreInclusive(skip, limit, total) == skip + limit <= total

\* hasMore: skip + limit < total
HasMore(skip, limit, total) == skip + limit < total

PaginatedComments(store, ctx, postId, pageArg, limitArg) ==
    IF ~ctx.isAuth THEN Throw(store, "Not authenticated!")
    ELSE LET page == OrDefault(pageArg, DefaultPage)
             limit == OrDefault(limitArg, DefaultLimit)
             skip == (page - 1) * limit
             totalComments == CountTopLevel(store, postId)
             topComments ==
                 SkipLimit(SortByCreatedAtDesc(store,
                               {c \in DOMAIN store :
                                   store[c].post = postId /\ store[c].parentId = Null}),
                           skip, limit)
             mapped == [i \in 1..Len(topComments) |->
                           [MapCommentData(store, topComments[i], store[topComments[i]])
                               EXCEPT !.replies = GetRepliesRecursive(store, topComments[i])]]
         IN  Return(store, [comments      |-> mapped,
                            totalComments |-> totalComments,
                            hasMore       |-> HasMore(skip, limit, totalComments)])

PaginatedReplies(store, ctx, commentId, pageArg, limitArg) ==
    IF ~ctx.isAuth THEN Throw(store, "Not authenticated!")
    ELSE LET page == OrDefault(pageArg, DefaultPage)
             limit == OrDefault(limitArg, DefaultLimit)
             skip == (page - 1) * limit
             totalReplies == CountByParent(store, commentId)
             repliesData ==
                 SkipLimit(SortByCreatedAtDesc(store,
                               {c \in DOMAIN store : store[c].parentId = commentId}),
                           skip, limit)
             mapped == [i \in 1..Len(repliesData) |->
                           MapCommentData(store, repliesData[i], store[repliesData[i]])]
         IN  Return(store, [replies      |-> mapped,
                            totalReplies |-> totalReplies,
                            hasMore      |-> HasMore(skip, limit, totalReplies)])

\* ------------------------------------------------------- requests
\* The requests of one behaviour come from one of four client workloads, so
\* that the arguments that matter to an operation vary together:
\*   "thread": comments and replies of user 1 with every kind of postId and
\*             parentId, deleted by anybody and read page by page;
\*   "likes" : threads of at most MaxLikeThread comments of user 1 on post 1,
\*             liked and unliked by anybody, and read;
\*   "edits" : threads on post 1 written, edited and deleted by anybody, with
\*             every kind of content;
\*   "orphans": threads of at most MaxOrphanThread comments of the users on
\*             post 1, read while user accounts are deleted.
Workloads == {"thread", "likes", "edits", "orphans"}

\* Number of comments of a behaviour of the "orphans" workload.
MaxOrphanThread == 2

\* Number of comments of a behaviour of the "likes" workload.
MaxLikeThread == 2

\* Number of comments of a behaviour of the "likeRace" workload (ConcSpec):
\* concurrent likeComment and unlikeComment requests of the users.
MaxRaceThread == 1

\* Number of comments of a behaviour of the "deleteRace" workload (ConcSpec):
\* concurrent addComment and deleteComment requests of the users.
MaxDeleteThread == 2

\* Number of comments of a behaviour of the "cascadeRace" workload (ConcSpec):
\* deleteComment requests concurrent with likeComment and updateComment.
MaxCascadeThread == 2

\* Number of comments of a behaviour of the "readRace" workload (ConcSpec):
\* replies requests concurrent with addComment and addReply.
MaxReadThread == 3

CreateLimit ==
    CASE workload = "likes"    -> MaxLikeThread
      [] workload = "likeRace" -> MaxRaceThread
      [] workload = "orphans"  -> MaxOrphanThread
      [] workload = "deleteRace" -> MaxDeleteThread
      [] workload = "cascadeRace" -> MaxCascadeThread
      [] workload = "readRace" -> MaxReadThread
      [] OTHER                 -> MaxComments

\* Comment ids a caller may send: an id some comment has or had, or GhostId.
CommentIds == {c \in 1..MaxComments : c < nextId} \cup {GhostId}

CreateContexts ==
    CASE workload = "edits"   -> Contexts
      [] workload = "orphans" -> {Auth(u) : u \in Users}
      [] OTHER                -> {Auth(1)}

CreatePosts == IF workload = "thread" THEN PostIds ELSE {1}

\* Text is a sequence of characters; " " is the whitespace character.
CreateContents ==
    IF workload = "edits" THEN {<< >>, <<" ">>, <<" ", "a">>} ELSE {<<" ", "a">>}

EditContents == {<< >>, <<" ">>, <<"b", " ">>}

ParentIds == IF workload = "thread" THEN CommentIds \cup {Null} ELSE {Null}

ReplyTargets == IF workload = "thread" THEN CommentIds ELSE DOMAIN comments

ReadContexts == IF workload = "likes" THEN {Anon, Auth(1)} ELSE {Auth(1)}

ReadPosts == IF workload = "thread" THEN PostIds ELSE {1}

MaxPage == 2
MaxLimit == 2
\* Null: the argument is left out.
Pages == IF workload = "thread" THEN {Null} \cup 1..MaxPage ELSE {1}
Limits == IF workload = "thread" THEN {Null} \cup 1..MaxLimit ELSE {MaxLimit}

NoLike == [commentId |-> Null, userId |-> Null, before |-> << >>]

\* A document that was not loaded.
NoDoc ==
    [content |-> << >>, post |-> Null, creator |-> Null, parentId |-> Null,
     likes |-> << >>, createdAt |-> Null]

Procs == 1..MaxProcs

\* A connection with no request in flight.
Idle ==
    [pc |-> "idle", op |-> "none", ctx |-> Anon, commentId |-> Null,
     doc |-> NoDoc, ids |-> << >>, todo |-> << >>,
     found |-> << >>, docs |-> << >>, counted |-> << >>,
     error |-> "", result |-> Null]

NoArgs ==
    [commentId |-> Null, postId |-> Null, parentId |-> Null,
     content |-> << >>, page |-> Null, limit |-> Null]

Serve(op, ctx, args, out) ==
    /\ comments' = out.store
    /\ last' = [op |-> op, ctx |-> ctx, args |-> args,
                error |-> out.error, result |-> out.result]
    /\ pre' = comments
    /\ prevLike' = IF last.op = "likeComment" /\ last.error = ""
                   THEN [commentId |-> last.args.commentId,
                         userId    |-> last.ctx.userId,
                         before    |-> pre[last.args.commentId].likes]
                   ELSE NoLike
    /\ UNCHANGED <<workload, procs, users>>

Init ==
    /\ comments = << >>
    /\ nextId = 1
    /\ last = [op |-> "none", ctx |-> Anon, args |-> NoArgs,
               error |-> "", result |-> Null]
    /\ pre = << >>
    /\ prevLike = NoLike
    /\ workload \in Workloads
    /\ procs = [p \in Procs |-> Idle]
    /\ users = Users

CallLikeComment ==
    /\ workload = "likes"
    /\ \E ctx \in Contexts, c \in CommentIds :
        /\ Serve("likeComment", ctx, [NoArgs EXCEPT !.commentId = c],
                 LikeComment(comments, ctx, c))
        /\ UNCHANGED nextId

CallUnlikeComment ==
    /\ workload = "likes"
    /\ \E ctx \in Contexts, c \in CommentIds :
        /\ Serve("unlikeComment", ctx, [NoArgs EXCEPT !.commentId = c],
                 UnlikeComment(comments, ctx, c))
        /\ UNCHANGED nextId

CallAddReply ==
    \E ctx \in CreateContexts, p \in CreatePosts, c \in ReplyTargets,
       t \in CreateContents :
        LET out == AddReply(comments, nextId, ctx, p, c, t) IN
        /\ nextId <= CreateLimit
        /\ Serve("addReply", ctx,
                 [NoArgs EXCEPT !.postId = p, !.commentId = c, !.content = t], out)
        /\ nextId' = IF out.error = "" THEN nextId + 1 ELSE nextId

CallAddComment ==
    \E ctx \in CreateContexts, p \in CreatePosts, c \in ParentIds,
       t \in CreateContents :
        LET input == [content |-> t, postId |-> p, parentId |-> c]
            out == AddComment(comments, nextId, ctx, input) IN
        /\ nextId <= CreateLimit
        /\ Serve("addComment", ctx,
                 [NoArgs EXCEPT !.postId = p, !.parentId = c, !.content = t], out)
        /\ nextId' = IF out.error = "" THEN nextId + 1 ELSE nextId

CallUpdateComment ==
    /\ workload \in {"edits", "likes"}
    /\ \E ctx \in Contexts, c \in CommentIds, t \in EditContents :
        /\ Serve("updateComment", ctx,
                 [NoArgs EXCEPT !.commentId = c, !.content = t],
                 UpdateComment(comments, ctx, c, t))
        /\ UNCHANGED nextId

CallDeleteComment ==
    /\ workload \in {"thread", "edits"}
    /\ \E ctx \in Contexts, c \in CommentIds :
        /\ Serve("deleteComment", ctx, [NoArgs EXCEPT !.commentId = c],
                 DeleteComment(comments, ctx, c))
        /\ UNCHANGED nextId

CallComments ==
    /\ workload \in {"thread", "likes", "orphans"}
    /\ \E ctx \in ReadContexts, p \in ReadPosts :
        /\ Serve("comments", ctx, [NoArgs EXCEPT !.postId = p],
                 CommentsQuery(comments, ctx, p))
        /\ UNCHANGED nextId

CallReplies ==
    /\ workload \in {"thread", "likes", "orphans"}
    /\ \E ctx \in ReadContexts, c \in CommentIds :
        /\ Serve("replies", ctx, [NoArgs EXCEPT !.commentId = c],
                 RepliesQuery(comments, ctx, c))
        /\ UNCHANGED nextId

CallPost ==
    /\ workload \in {"thread", "likes", "orphans"}
    /\ \E ctx \in ReadContexts, p \in ReadPosts :
        /\ Serve("post", ctx, [NoArgs EXCEPT !.postId = p],
                 PostQuery(comments, ctx, p))
        /\ UNCHANGED nextId

CallPosts ==
    /\ workload \in {"thread", "orphans"}
    /\ \E ctx \in ReadContexts :
        /\ Serve("posts", ctx, NoArgs, PostsQuery(comments, ctx))
        /\ UNCHANGED nextId

CallPaginatedComments ==
    /\ workload \in {"thread", "likes", "orphans"}
    /\ \E ctx \in ReadContexts, p \in ReadPosts, page \in Pages, limit \in Limits :
        /\ Serve("paginatedComments", ctx,
                 [NoArgs EXCEPT !.postId = p, !.page = page, !.limit = limit],
                 PaginatedComments(comments, ctx, p, page, limit))
        /\ UNCHANGED nextId

CallPaginatedReplies ==
    /\ workload \in {"thread", "likes", "orphans"}
    /\ \E ctx \in ReadContexts, c \in CommentIds, page \in Pages, limit \in Limits :
        /\ Serve("paginatedReplies", ctx,
                 [NoArgs EXCEPT !.commentId = c, !.page = page, !.limit = limit],
                 PaginatedReplies(comments, ctx, c, page, limit))
        /\ UNCHANGED nextId

\* deleteUser(userId): the user document goes, the comments of the user stay.
CallDeleteUser ==
    /\ workload = "orphans"
    /\ \E u \in users :
        /\ users' = users \ {u}
        /\ last' = [op |-> "deleteUser", ctx |-> Anon, args |-> NoArgs,
                    error |-> "", result |-> TRUE]
        /\ pre' = comments
        /\ prevLike' = NoLike
        /\ UNCHANGED <<comments, nextId, workload, procs>>

Next ==
    \/ CallDeleteUser
    \/ CallLikeComment
    \/ CallUnlikeComment
    \/ CallAddReply
    \/ CallAddComment
    \/ CallUpdateComment
    \/ CallDeleteComment
    \/ CallComments
    \/ CallReplies
    \/ CallPost
    \/ CallPosts
    \/ CallPaginatedComments
    \/ CallPaginatedReplies

Spec == Init /\ [][Next]_vars

\* ------------------------------------------------- requests in flight
\* A resolver runs until its next await on the comments collection; awaits
\* on the users and posts collections, which no request changes, are part of
\* the step before them.
RaceContexts ==
    IF workload \in {"cascadeRace", "readRace"} THEN {Auth(1)}
    ELSE {Auth(u) : u \in Users}

Ready(p) == procs[p].pc \in {"idle", "done"}

\* The parentId of the comments written while requests race.
RaceParents ==
    IF workload \in {"deleteRace", "cascadeRace"} THEN {Null} \cup DOMAIN comments ELSE {Null}

Proceed(p, pcNext, doc) ==
    procs' = [procs EXCEPT ![p].pc = pcNext, ![p].doc = doc]

Fail(p, op, ctx, commentId, message) ==
    procs' = [procs EXCEPT ![p] =
                 [Idle EXCEPT !.pc = "done", !.op = op, !.ctx = ctx,
                              !.commentId = commentId, !.error = message]]

\* likeComment / unlikeComment up to: await Comment.findById(commentId)
Load(p, op) ==
    /\ \/ workload = "likeRace"
       \/ workload = "cascadeRace" /\ op = "likeComment"
    /\ Ready(p)
    /\ \E ctx \in RaceContexts, c \in CommentIds :
          IF ~Exists(comments, c)
          THEN Fail(p, op, ctx, c, "Comment not found!")
          ELSE procs' = [procs EXCEPT ![p] =
                            [Idle EXCEPT !.pc = "loaded", !.op = op, !.ctx = ctx,
                                         !.commentId = c, !.doc = comments[c]]]
    /\ UNCHANGED <<comments, nextId, last, pre, prevLike, workload, users>>

LoadLike(p) == Load(p, "likeComment")

LoadUnlike(p) == Load(p, "unlikeComment")

\* Mutant: the save of a like writes the loaded document back when the
\* stored one is gone.
SaveLikeUpsert(p) ==
    LET r == procs[p]
        doc == [r.doc EXCEPT !.likes = ArrayPush(@, r.ctx.userId)]
    IN  /\ r.pc = "loaded"
        /\ r.op = "likeComment"
        /\ comments' = Insert(comments, r.commentId, doc)
        /\ Proceed(p, "saved", doc)
        /\ UNCHANGED <<nextId, last, pre, prevLike, workload, users>>

\* likeComment: the includes test, likes.push and await comment.save()
SaveLike(p) ==
    LET r == procs[p] IN
    /\ r.pc = "loaded"
    /\ r.op = "likeComment"
    /\ IF ArrayIncludes(r.doc.likes, r.ctx.userId)
       THEN /\ Proceed(p, "saved", r.doc)
            /\ UNCHANGED comments
       ELSE IF Exists(comments, r.commentId)
       THEN /\ comments' = SavePush(comments, r.commentId, r.ctx.userId)
            /\ Proceed(p, "saved",
                       [r.doc EXCEPT !.likes = ArrayPush(@, r.ctx.userId)])
       ELSE /\ Fail(p, r.op, r.ctx, r.commentId, "No document found")
            /\ UNCHANGED comments
    /\ UNCHANGED <<nextId, last, pre, prevLike, workload, users>>

\* unlikeComment: likes.pull and await comment.save()
SaveUnlike(p) ==
    LET r == procs[p] IN
    /\ r.pc = "loaded"
    /\ r.op = "unlikeComment"
    /\ IF Exists(comments, r.commentId)
       THEN /\ comments' = SavePull(comments, r.commentId, r.ctx.userId)
            /\ Proceed(p, "saved",
                       [r.doc EXCEPT !.likes = ArrayPull(@, r.ctx.userId)])
       ELSE /\ Fail(p, r.op, r.ctx, r.commentId, "No document found")
            /\ UNCHANGED comments
    /\ UNCHANGED <<nextId, last, pre, prevLike, workload, users>>

\* addComment up to and including await comment.save()
SaveComment(p) ==
    /\ Ready(p)
    /\ nextId <= CreateLimit
    /\ \E ctx \in RaceContexts, parent \in RaceParents :
          LET input == [content |-> <<" ", "a">>, postId |-> 1, parentId |-> parent]
              out == AddComment(comments, nextId, ctx, input)
          IN  /\ comments' = out.store
              /\ nextId' = nextId + 1
              /\ procs' = [procs EXCEPT ![p] =
                              [Idle EXCEPT !.pc = "saved", !.op = "addComment",
                                           !.ctx = ctx, !.commentId = nextId,
                                           !.doc = out.store[nextId]]]
    /\ UNCHANGED <<last, pre, prevLike, workload, users>>

\* populate, then return mapCommentData(comment): its countDocuments
Respond(p) ==
    LET r == procs[p] IN
    /\ r.pc = "saved"
    /\ procs' = [procs EXCEPT ![p].pc = "done",
                              ![p].result = MapCommentData(comments, r.commentId, r.doc)]
    /\ UNCHANGED <<comments, nextId, last, pre, prevLike, workload, users>>

\* addReply up to: await Comment.findById(commentId), and the test that
\* follows it
LoadReply(p) ==
    /\ workload \in {"deleteRace", "readRace"}
    /\ Ready(p)
    /\ nextId <= CreateLimit
    /\ \E ctx \in RaceContexts, c \in CommentIds :
          IF ~UserExists(ctx.userId)
          THEN Fail(p, "addReply", ctx, c, "User not found!")
          ELSE IF ~Exists(comments, c)
          THEN Fail(p, "addReply", ctx, c, "Parent comment not found!")
          ELSE procs' = [procs EXCEPT ![p] =
                            [Idle EXCEPT !.pc = "checked", !.op = "addReply",
                                         !.ctx = ctx, !.commentId = c,
                                         !.doc = comments[c]]]
    /\ UNCHANGED <<comments, nextId, last, pre, prevLike, workload, users>>

\* addReply: new Comment({ ..., parentId: commentId }) and await reply.save()
SaveReply(p) ==
    LET r == procs[p]
        reply == [content   |-> Trim(<<" ", "a">>),
                  post      |-> 1,
                  parentId  |-> r.commentId,
                  creator   |-> r.ctx.userId,
                  likes     |-> << >>,
                  createdAt |-> nextId]
    IN  /\ r.pc = "checked"
        /\ nextId <= CreateLimit
        /\ comments' = Insert(comments, nextId, reply)
        /\ nextId' = nextId + 1
        /\ procs' = [procs EXCEPT ![p].pc = "saved", ![p].commentId = nextId,
                                  ![p].doc = reply]
        /\ UNCHANGED <<last, pre, prevLike, workload, users>>

\* The content an updateComment request sends while requests race.
RaceContent == <<"b", " ">>

\* updateComment up to: await Comment.findById(commentId).populate(...),
\* and the tests that follow it
LoadUpdate(p) ==
    /\ workload = "cascadeRace"
    /\ Ready(p)
    /\ \E ctx \in RaceContexts, c \in CommentIds :
          IF ~Exists(comments, c)
          THEN Fail(p, "updateComment", ctx, c, "Comment not found!")
          ELSE IF ~UserExists(comments[c].creator)
          THEN Fail(p, "updateComment", ctx, c, NullCreator)
          ELSE IF comments[c].creator # ctx.userId
          THEN Fail(p, "updateComment", ctx, c, "Not authorized!")
          ELSE procs' = [procs EXCEPT ![p] =
                            [Idle EXCEPT !.pc = "loaded", !.op = "updateComment",
                                         !.ctx = ctx, !.commentId = c,
                                         !.doc = comments[c]]]
    /\ UNCHANGED <<comments, nextId, last, pre, prevLike, workload, users>>

\* updateComment: comment.content = content.trim() and await comment.save()
SaveUpdate(p) ==
    LET r == procs[p] IN
    /\ r.pc = "loaded"
    /\ r.op = "updateComment"
    /\ IF Exists(comments, r.commentId)
       THEN /\ comments' = SaveContent(comments, r.commentId, Trim(RaceContent))
            /\ Proceed(p, "saved", [r.doc EXCEPT !.content = Trim(RaceContent)])
       ELSE /\ Fail(p, r.op, r.ctx, r.commentId, "No document found")
            /\ UNCHANGED comments
    /\ UNCHANGED <<nextId, last, pre, prevLike, workload, users>>

\* deleteComment up to: await Comment.findById(commentId).populate(...),
\* and the tests that follow it
LoadDelete(p) ==
    /\ workload \in {"deleteRace", "cascadeRace"}
    /\ Ready(p)
    /\ \E ctx \in RaceContexts, c \in CommentIds :
          IF ~Exists(comments, c)
          THEN Fail(p, "deleteComment", ctx, c, "Comment not found!")
          ELSE IF ~UserExists(comments[c].creator)
          THEN Fail(p, "deleteComment", ctx, c, NullCreator)
          ELSE IF comments[c].creator # ctx.userId
          THEN Fail(p, "deleteComment", ctx, c, "Not authorized!")
          ELSE procs' = [procs EXCEPT ![p] =
                            [Idle EXCEPT !.pc = "collecting", !.op = "deleteComment",
                                         !.ctx = ctx, !.commentId = c,
                                         !.doc = comments[c], !.todo = <<c>>]]
    /\ UNCHANGED <<comments, nextId, last, pre, prevLike, workload, users>>

\* getAllDescendantIds: one await Comment.find({ parentId }); todo holds the
\* parents whose children are still to be asked for, in the order of the
\* recursion, and ids the ids collected so far.
Collect(p) ==
    LET r == procs[p]
        children == Ascending({c \in DOMAIN comments :
                                  comments[c].parentId = Head(r.todo)})
        ids  == r.ids \o children
        todo == children \o Tail(r.todo)
    IN  /\ r.pc = "collecting"
        /\ procs' = [procs EXCEPT
                        ![p].ids = ids,
                        ![p].todo = todo,
                        ![p].pc = IF todo # << >> THEN "collecting"
                                  ELSE IF Len(ids) > 0 THEN "collected"
                                  ELSE "deletedMany"]
        /\ UNCHANGED <<comments, nextId, last, pre, prevLike, workload, users>>

\* await Comment.deleteMany({ _id: { $in: descendantIds } })
DeleteMany(p) ==
    LET r == procs[p] IN
    /\ r.pc = "collected"
    /\ comments' = DeleteIds(comments, Range(r.ids))
    /\ procs' = [procs EXCEPT ![p].pc = "deletedMany"]
    /\ UNCHANGED <<nextId, last, pre, prevLike, workload, users>>

\* await Comment.findByIdAndDelete(commentId); return true
DeleteTarget(p) ==
    LET r == procs[p] IN
    /\ r.pc = "deletedMany"
    /\ comments' = DeleteIds(comments, {r.commentId})
    /\ procs' = [procs EXCEPT ![p].pc = "done", ![p].result = TRUE]
    /\ UNCHANGED <<nextId, last, pre, prevLike, workload, users>>

\* One await Comment.find({ parentId }).sort({ createdAt: -1 }) of a read
\* request: the ids found, newest first, are kept under parentId in found
\* and the documents in docs.
Find(r, parentId) ==
    LET replies == SortByCreatedAtDesc(comments,
                       {c \in DOMAIN comments : comments[c].parentId = parentId})
    IN  [r EXCEPT !.found = [n \in DOMAIN r.found \cup {parentId} |->
                                IF n = parentId THEN replies ELSE r.found[n]],
                  !.docs  = [n \in DOMAIN r.docs \cup Range(replies) |->
                                IF n \in Range(replies) THEN comments[n]
                                ELSE r.docs[n]]]

\* replies(commentId): the isAuth test and the find of getRepliesRecursive
\* for commentId
ReadStart(p) ==
    /\ workload = "readRace"
    /\ Ready(p)
    /\ \E ctx \in RaceContexts, c \in CommentIds :
          procs' = [procs EXCEPT ![p] =
                       Find([Idle EXCEPT !.pc = "reading", !.op = "replies",
                                          !.ctx = ctx, !.commentId = c], c)]
    /\ UNCHANGED <<comments, nextId, last, pre, prevLike, workload, users>>

\* replies: await getRepliesRecursive(r._id) of a reply r that was found:
\* its find
ReadFind(p) ==
    LET r == procs[p] IN
    /\ r.pc = "reading"
    /\ \E n \in DOMAIN r.docs \ DOMAIN r.found :
          procs' = [procs EXCEPT ![p] = Find(r, n)]
    /\ UNCHANGED <<comments, nextId, last, pre, prevLike, workload, users>>

\* repliesCount: await Comment.countDocuments({ parentId: r._id }), awaited
\* once the replies of r are there, each with its own replies and count
ReadCount(p) ==
    LET r == procs[p] IN
    /\ r.pc = "reading"
    /\ \E n \in (DOMAIN r.docs \cap DOMAIN r.found) \ DOMAIN r.counted :
          /\ Range(r.found[n]) \subseteq DOMAIN r.counted
          /\ procs' = [procs EXCEPT ![p].counted =
                          [m \in DOMAIN r.counted \cup {n} |->
                              IF m = n THEN CountByParent(comments, n)
                              ELSE r.counted[m]]]
    /\ UNCHANGED <<comments, nextId, last, pre, prevLike, workload, users>>

\* The array getRepliesRecursive(parentId) resolves to, from what the finds
\* and the counts of the request returned.
RECURSIVE Materialized(_, _)
Materialized(r, parentId) ==
    LET replies == r.found[parentId]
    IN  [i \in 1..Len(replies) |->
            LET n == replies[i] IN
            [_id          |-> n,
             content      |-> r.docs[n].content,
             post         |-> r.docs[n].post,
             parentId     |-> r.docs[n].parentId,
             creator      |-> MapCreator(r.docs[n].creator),
             createdAt    |-> r.docs[n].createdAt,
             likes        |-> PopulateLikes(r.docs[n].likes),
             likesCount   |-> Len(PopulateLikes(r.docs[n].likes)),
             replies      |-> Materialized(r, n),
             repliesCount |-> r.counted[n]]]

\* replies: return await getRepliesRecursive(commentId), every promise of it
\* being resolved
ReadRespond(p) ==
    LET r == procs[p] IN
    /\ r.pc = "reading"
    /\ Range(r.found[r.commentId]) \subseteq DOMAIN r.counted
    /\ procs' = [procs EXCEPT ![p].pc = "done",
                              ![p].result = Materialized(r, r.commentId)]
    /\ UNCHANGED <<comments, nextId, last, pre, prevLike, workload, users>>

\* The store call a request awaits rejects: the resolver throws the error of
\* the store and does nothing more.
StoreFailure(p) ==
    /\ ~Ready(p)
    /\ procs' = [procs EXCEPT ![p].pc = "done", ![p].error = "store failure"]
    /\ UNCHANGED <<comments, nextId, last, pre, prevLike, workload, users>>

ConcInit ==
    /\ comments = << >>
    /\ nextId = 1
    /\ last = [op |-> "none", ctx |-> Anon, args |-> NoArgs,
               error |-> "", result |-> Null]
    /\ pre = << >>
    /\ prevLike = NoLike
    /\ workload \in {"likeRace", "deleteRace", "cascadeRace", "readRace"}
    /\ procs = [p \in Procs |-> Idle]
    /\ users = Users

ConcNext ==
    \E p \in Procs :
        \/ LoadLike(p)
        \/ LoadUnlike(p)
        \/ SaveLike(p)
        \/ SaveUnlike(p)
        \/ SaveComment(p)
        \/ LoadReply(p)
        \/ SaveReply(p)
        \/ LoadUpdate(p)
        \/ SaveUpdate(p)
        \/ Respond(p)
        \/ ReadStart(p)
        \/ ReadFind(p)
        \/ ReadCount(p)
        \/ ReadRespond(p)
        \/ LoadDelete(p)
        \/ Collect(p)
        \/ DeleteMany(p)
        \/ DeleteTarget(p)
        \/ StoreFailure(p)

ConcSpec == ConcInit /\ [][ConcNext]_vars

\* =============================================================== claims
\* What the properties below say about the last request served.
Served(op) == last.op = op /\ last.error = ""
Target == last.args.commentId
Requester == last.ctx.userId

\* The stored comments whose parentId is id.
ChildrenOf(store, id) == {x \in DOMAIN store : store[x].parentId = id}

\* The ids met when following parentId upwards from x, x excluded.
RECURSIVE Ancestors(_, _)
Ancestors(store, x) ==
    LET p == store[x].parentId IN
    IF p = Null THEN {}
    ELSE IF p \notin DOMAIN store THEN {p}
    ELSE {p} \cup Ancestors(store, p)

\* c together with every stored comment below it.
Subtree(store, c) == {c} \cup {x \in DOMAIN store : c \in Ancestors(store, x)}

\* The nodes of a materialized tree, at every depth.
RECURSIVE AllNodes(_)
AllNodes(tree) ==
    UNION {{tree[i]} \cup AllNodes(tree[i].replies) : i \in 1..Len(tree)}

\* Every comment node the last response carries.
ResponseNodes ==
    IF last.error # "" THEN {}
    ELSE CASE last.op \in {"addComment", "addReply", "updateComment",
                           "likeComment", "unlikeComment"} -> {last.result}
           [] last.op \in {"comments", "replies"} -> AllNodes(last.result)
           [] last.op \in {"post", "paginatedComments"} -> AllNodes(last.result.comments)
           [] last.op = "paginatedReplies" -> AllNodes(last.result.replies)
           [] OTHER -> {}

\* C1: a successful deleteComment(C) removes exactly C and the comments below
\* C, leaves every other comment as it was, and the parent of C (or the top
\* level, for a top-level C) has exactly one child less.
C1_DeleteRemovesSubtree ==
    Served("deleteComment") =>
        /\ DOMAIN comments = DOMAIN pre \ Subtree(pre, Target)
        /\ \A x \in DOMAIN comments : comments[x] = pre[x]
        /\ Cardinality(ChildrenOf(comments, pre[Target].parentId))
              = Cardinality(ChildrenOf(pre, pre[Target].parentId)) - 1

\* A delete that removed a child and a grandchild of its target.
C1_Witness ==
    /\ Served("deleteComment")
    /\ \E x, y \in DOMAIN pre :
          /\ pre[y].parentId = Target
          /\ pre[x].parentId = y
          /\ x \notin DOMAIN comments

\* C2: on every read path and in every mutation response, the repliesCount
\* of a node is the number of stored comments whose parentId is the node.
C2_RepliesCountIsChildCount ==
    \A n \in ResponseNodes :
        n.repliesCount = Cardinality(ChildrenOf(comments, n._id))

\* A tree read whose nodes include one with a child and a grandchild.
C2_Witness ==
    /\ Served("comments")
    /\ \E n \in ResponseNodes :
          /\ n.repliesCount = 1
          /\ Len(n.replies) = 1
          /\ n.replies[1].repliesCount = 1

\* C3: following parentId from any stored comment ends at a stored comment
\* whose parentId is null.
C3_Forest ==
    \A x \in DOMAIN comments : Ancestors(comments, x) \subseteq DOMAIN comments

\* C4: an otherwise valid addComment or addReply whose parentId is no stored
\* comment fails with a not-found error and stores nothing.
C4_MissingParentRejected ==
    /\ (/\ last.op = "addReply"
        /\ last.ctx.isAuth
        /\ \E i \in 1..Len(last.args.content) : last.args.content[i] # " "
        /\ last.args.commentId \notin DOMAIN pre)
       => (last.error = "Parent comment not found!" /\ comments = pre)
    /\ (/\ last.op = "addComment"
        /\ last.ctx.isAuth
        /\ \E i \in 1..Len(last.args.content) : last.args.content[i] # " "
        /\ last.args.postId \in Posts
        /\ last.args.parentId # Null
        /\ last.args.parentId \notin DOMAIN pre)
       => (last.error = "Parent comment not found!" /\ comments = pre)

\* C5: an otherwise valid addComment or addReply whose postId is no post
\* fails with a not-found error and stores nothing.
C5_MissingPostRejected ==
    /\ (/\ last.op = "addComment"
        /\ last.ctx.isAuth
        /\ \E i \in 1..Len(last.args.content) : last.args.content[i] # " "
        /\ last.args.postId \notin Posts)
       => (last.error = "Post not found!" /\ comments = pre)
    /\ (/\ last.op = "addReply"
        /\ last.ctx.isAuth
        /\ \E i \in 1..Len(last.args.content) : last.args.content[i] # " "
        /\ last.args.commentId \in DOMAIN pre
        /\ last.args.postId \notin Posts)
       => (last.error = "Post not found!" /\ comments = pre)

\* C6: addComment, addReply and updateComment with empty or whitespace-only
\* content fail and leave the store as it was (with the validation error when
\* the caller is authenticated), and no stored comment has blank content.
C6_BlankContentRejected ==
    /\ (/\ last.op \in {"addComment", "addReply", "updateComment"}
        /\ \A i \in 1..Len(last.args.content) : last.args.content[i] = " ")
       => /\ last.error # ""
          /\ comments = pre
          /\ last.ctx.isAuth =>
                last.error \in {"Comment cannot be empty!", "Reply cannot be empty!"}
    /\ \A x \in DOMAIN comments :
          /\ comments[x].content # << >>
          /\ comments[x].content[1] # " "
          /\ comments[x].content[Len(comments[x].content)] # " "

\* The creator of a comment sent whitespace as its new content.
C6_Witness ==
    /\ last.op = "updateComment"
    /\ last.args.content = <<" ">>
    /\ Target \in DOMAIN pre
    /\ pre[Target].creator = Requester
    /\ last.error = "Comment cannot be empty!"

\* C7: a likeComment(C,u) served right after a successful likeComment(C,u)
\* leaves the likes of C as the first call left them, with u in them exactly
\* once; and an unlikeComment(C,u) served when the likes of C are just u
\* reports likesCount 0.
C7_LikeIdempotent ==
    /\ (/\ Served("likeComment")
        /\ prevLike.commentId = Target
        /\ prevLike.userId = Requester)
       => /\ comments[Target].likes = pre[Target].likes
          /\ Cardinality({i \in 1..Len(comments[Target].likes) :
                             comments[Target].likes[i] = Requester}) = 1
    /\ (/\ Served("unlikeComment")
        /\ prevLike.commentId = Target
        /\ prevLike.userId = Requester
        /\ prevLike.before = << >>)
       => /\ last.result.likesCount = 0
          /\ comments[Target].likes = << >>

\* The same user liked the same comment twice in a row, the first time
\* adding the like.
C7_Witness ==
    /\ Served("likeComment")
    /\ prevLike.commentId = Target
    /\ prevLike.userId = Requester
    /\ prevLike.before = << >>
    /\ comments[Target].likes = <<Requester>>

\* C8 as claimed: an unlikeComment(C,u) served right after a successful
\* likeComment(C,u) leaves the likes of C as they were before the like.
C8_LikeUnlikeRestores ==
    (/\ Served("unlikeComment")
     /\ prevLike.commentId = Target
     /\ prevLike.userId = Requester)
    => comments[Target].likes = prevLike.before

\* C8 amended: it leaves the likes that were there before the like, without
\* u; that is the earlier value exactly when u had not liked C before.
C8_LikeUnlikeRemoves ==
    (/\ Served("unlikeComment")
     /\ prevLike.commentId = Target
     /\ prevLike.userId = Requester)
    => /\ comments[Target].likes
            = SelectSeq(prevLike.before, LAMBDA v : v # Requester)
       /\ (\A i \in 1..Len(prevLike.before) : prevLike.before[i] # Requester)
            => comments[Target].likes = prevLike.before

\* A like by a user who had not liked the comment, where somebody else had,
\* followed by the same user's unlike.
C8_Witness ==
    /\ Served("unlikeComment")
    /\ prevLike.commentId = Target
    /\ prevLike.userId = Requester
    /\ prevLike.before # << >>
    /\ \A i \in 1..Len(prevLike.before) : prevLike.before[i] # Requester
    /\ comments[Target].likes = prevLike.before

\* C9: a successful unlikeComment(C,u) leaves u out of the likes of C, keeps
\* every other user in them, in the same order, and changes nothing when u
\* was not in them.
C9_UnlikeRemovesOnlyUser ==
    Served("unlikeComment") =>
        LET before == pre[Target].likes
            after  == comments[Target].likes
        IN  /\ \A i \in 1..Len(after) : after[i] # Requester
            /\ \A v \in Users \ {Requester} :
                  Cardinality({i \in 1..Len(after) : after[i] = v})
                    = Cardinality({i \in 1..Len(before) : before[i] = v})
            /\ (\A i \in 1..Len(before) : before[i] # Requester) => after = before

\* An unlike that removed the user from likes that held another user too.
C9_Witness ==
    /\ Served("unlikeComment")
    /\ \E i, j \in 1..Len(pre[Target].likes) :
          /\ pre[Target].likes[i] = Requester
          /\ pre[Target].likes[j] # Requester
    /\ Len(comments[Target].likes) = 1

\* C10: in every state, also with requests interleaved, the likes of a
\* comment hold each user at most once.
C10_LikesUnique ==
    \A c \in DOMAIN comments :
        \A i, j \in 1..Len(comments[c].likes) :
            i # j => comments[c].likes[i] # comments[c].likes[j]

\* The users in the likes of a stored comment.
LikedBy(store, c) == Range(store[c].likes)

PageAsked == IF last.args.page = Null THEN 1 ELSE last.args.page
LimitAsked == IF last.args.limit = Null THEN DefaultLimit ELSE last.args.limit

\* The stored comments that match the parent filter of the last paginated
\* request: the top level of the post, or the children of the comment.
Matching ==
    IF last.op = "paginatedComments"
    THEN {c \in DOMAIN comments :
             comments[c].post = last.args.postId /\ comments[c].parentId = Null}
    ELSE ChildrenOf(comments, Target)

\* The items and the total of the last paginated response.
PageItems ==
    IF last.op = "paginatedComments" THEN last.result.comments
    ELSE last.result.replies
PageTotal ==
    IF last.op = "paginatedComments" THEN last.result.totalComments
    ELSE last.result.totalReplies

ServedPage == Served("paginatedComments") \/ Served("paginatedReplies")

\* C12: a paginated response reports hasMore exactly when page * limit is
\* less than the number of comments that match the parent filter (page 1
\* when the page is left out), and its total is that number.
C12_HasMoreAndTotal ==
    ServedPage =>
        /\ last.result.hasMore <=> (PageAsked * LimitAsked < Cardinality(Matching))
        /\ PageTotal = Cardinality(Matching)

\* A request without a page, answered as page 1 of 3 with more to come.
C12_Witness ==
    /\ ServedPage
    /\ last.args.page = Null
    /\ last.args.limit = 2
    /\ PageTotal = 3
    /\ last.result.hasMore

\* C13: the last page of N >= 1 matching comments, the page p with
\* (p - 1) * L < N <= p * L, carries N mod L items when L does not divide N
\* and L items when it does, and reports hasMore = false.
C13_LastPageSize ==
    LET N == Cardinality(Matching)
        L == LimitAsked
        p == PageAsked
    IN  (ServedPage /\ (p - 1) * L < N /\ N <= p * L) =>
            /\ Len(PageItems) = (IF N % L = 0 THEN L ELSE N % L)
            /\ ~last.result.hasMore

\* The second page of three comments read two at a time: one item.
C13_Witness ==
    /\ ServedPage
    /\ Cardinality(Matching) = 3
    /\ LimitAsked = 2
    /\ PageAsked = 2
    /\ Len(PageItems) = 1

\* The lists of siblings of a materialized tree: the tree itself and the
\* replies of each of its nodes, at every depth.
RECURSIVE SiblingLists(_)
SiblingLists(tree) ==
    {tree} \cup UNION {SiblingLists(tree[i].replies) : i \in 1..Len(tree)}

\* The lists of siblings the last read carries.
ResponseLists ==
    IF last.error # "" THEN {}
    ELSE CASE last.op \in {"comments", "replies"} -> SiblingLists(last.result)
           [] last.op \in {"post", "paginatedComments"} ->
                  SiblingLists(last.result.comments)
           [] last.op = "paginatedReplies" -> SiblingLists(last.result.replies)
           [] OTHER -> {}

\* C14: on every read path the children returned for one parent are in
\* non-increasing order of createdAt, at every level of the tree, each list
\* of siblings by itself.
C14_NewestFirstPerLevel ==
    \A list \in ResponseLists :
        \A i, j \in 1..Len(list) :
            i < j => list[i].createdAt >= list[j].createdAt

\* Two top-level comments, newest first, where the older one has a reply
\* newer than both: the order is per level, not global.
C14_Witness ==
    /\ Served("comments")
    /\ Len(last.result) = 2
    /\ last.result[1].createdAt > last.result[2].createdAt
    /\ Len(last.result[2].replies) = 1
    /\ last.result[2].replies[1].createdAt > last.result[1].createdAt

\* The content of the last request has a character that is not whitespace.
NonBlankContent == \E i \in 1..Len(last.args.content) : last.args.content[i] # " "

\* C15: likeComment, unlikeComment, updateComment and deleteComment on an id
\* that no stored comment has fail and leave the store as it was; the error
\* is 'Comment not found!' when the caller is authenticated and, for
\* updateComment, the content is not blank.
C15_MissingCommentRejected ==
    (/\ last.op \in {"likeComment", "unlikeComment", "updateComment", "deleteComment"}
     /\ Target \notin DOMAIN pre)
    => /\ last.error # ""
       /\ comments = pre
       /\ (last.ctx.isAuth /\ (last.op = "updateComment" => NonBlankContent))
             => last.error = "Comment not found!"

\* An edit of a comment that had been deleted.
C15_Witness ==
    /\ last.op = "updateComment"
    /\ Target \notin DOMAIN pre
    /\ Target < nextId
    /\ last.error = "Comment not found!"

\* The requests on comments.
CommentOps ==
    {"likeComment", "unlikeComment", "addReply", "addComment", "updateComment",
     "deleteComment", "comments", "replies", "paginatedComments",
     "paginatedReplies"}

\* C16: updateComment and deleteComment by an authenticated user who is not
\* the creator fail with 'Not authorized!' (updateComment with blank content
\* fails on the content first), every request on comments without
\* authentication fails with 'Not authenticated!', the store is as it was in
\* both cases, and likeComment and unlikeComment by any authenticated user
\* on any stored comment succeed.
C16_AuthorizationEnforced ==
    /\ (/\ last.op \in {"updateComment", "deleteComment"}
        /\ last.ctx.isAuth
        /\ Target \in DOMAIN pre
        /\ pre[Target].creator # Requester)
       => /\ last.error # ""
          /\ comments = pre
          /\ (last.op = "updateComment" => NonBlankContent)
                => last.error = "Not authorized!"
    /\ (last.op \in CommentOps /\ ~last.ctx.isAuth)
       => (last.error = "Not authenticated!" /\ comments = pre)
    /\ (/\ last.op \in {"likeComment", "unlikeComment"}
        /\ last.ctx.isAuth
        /\ Target \in DOMAIN pre)
       => last.error = ""

\* A user tried to delete somebody else's comment that has a reply.
C16_Witness ==
    /\ last.op = "deleteComment"
    /\ last.ctx.isAuth
    /\ Target \in DOMAIN pre
    /\ pre[Target].creator # Requester
    /\ ChildrenOf(pre, Target) # {}
    /\ last.error = "Not authorized!"

\* C17: the step of a deleteComment request that changes the store removes
\* the collected descendants and the target together, so that no state has
\* the descendants removed and the target kept, or the reverse.
C17_SingleBulkDelete ==
    [][\A p \in Procs :
          (/\ procs[p].op = "deleteComment"
           /\ ~Ready(p)
           /\ procs'[p].pc # procs[p].pc
           /\ comments' # comments)
          => DOMAIN comments'
                = DOMAIN comments \ (Range(procs[p].ids) \cup {procs[p].commentId})]_vars

\* C18: a read of comments by an authenticated caller never fails, and every
\* node it returns whose creator is no user carries the 'Deleted User'
\* identity as its creator.
C18_OrphanedCreatorTolerated ==
    (/\ last.op \in {"comments", "replies", "paginatedComments", "paginatedReplies"}
     /\ last.ctx.isAuth)
    => /\ last.error = ""
       /\ \A n \in ResponseNodes :
             ~UserExists(comments[n._id].creator) => n.creator = DeletedUser

IdsOf(list) == {list[i]._id : i \in 1..Len(list)}

\* The list carries each of the comments in S once and nothing else.
Lists(list, S) == IdsOf(list) = S /\ Len(list) = Cardinality(S)

\* The stored comments are the chain a <- b <- c on post postId.
IsChain(a, b, c, postId) ==
    /\ DOMAIN comments = {a, b, c}
    /\ \A x \in {a, b, c} : comments[x].post = postId
    /\ comments[a].parentId = Null
    /\ comments[b].parentId = a
    /\ comments[c].parentId = b

\* The tree [A{repliesCount 1, replies [B{repliesCount 1, replies
\* [C{repliesCount 0, replies []}]}]}].
IsChainTree(tree, a, b, c) ==
    /\ Len(tree) = 1
    /\ tree[1]._id = a
    /\ tree[1].repliesCount = 1
    /\ Len(tree[1].replies) = 1
    /\ tree[1].replies[1]._id = b
    /\ tree[1].replies[1].repliesCount = 1
    /\ Len(tree[1].replies[1].replies) = 1
    /\ tree[1].replies[1].replies[1]._id = c
    /\ tree[1].replies[1].replies[1].repliesCount = 0
    /\ tree[1].replies[1].replies[1].replies = << >>

\* C20: comments(postId) returns exactly the top-level comments of the post
\* and replies(commentId) exactly the children of the comment; every node,
\* at every depth, carries in replies exactly its children, so that the
\* nodes below a node are all the stored comments below it; and for the
\* chain A <- B <- C on post P the result is the tree of the chain.
C20_FullTree ==
    /\ Served("comments") =>
          /\ Lists(last.result,
                   {c \in DOMAIN comments :
                       /\ comments[c].post = last.args.postId
                       /\ comments[c].parentId = Null})
          /\ \A a, b, c \in DOMAIN comments :
                IsChain(a, b, c, last.args.postId)
                    => IsChainTree(last.result, a, b, c)
    /\ Served("replies") =>
          /\ Lists(last.result, ChildrenOf(comments, Target))
          /\ {n._id : n \in AllNodes(last.result)}
                = {x \in DOMAIN comments : Target \in Ancestors(comments, x)}
    /\ (Served("comments") \/ Served("replies")) =>
          \A n \in AllNodes(last.result) :
              /\ Lists(n.replies, ChildrenOf(comments, n._id))
              /\ {m._id : m \in AllNodes(n.replies)}
                    = {x \in DOMAIN comments : n._id \in Ancestors(comments, x)}

\* comments(P) served on the chain A <- B <- C on post P.
C20_Witness ==
    /\ Served("comments")
    /\ \E a, b, c \in DOMAIN comments :
          /\ IsChain(a, b, c, last.args.postId)
          /\ IsChainTree(last.result, a, b, c)

\* What the claims compare of two nodes: the comment, its counters and,
\* node by node, its replies.
RECURSIVE Outline(_)
Outline(list) ==
    [i \in 1..Len(list) |->
        [_id          |-> list[i]._id,
         repliesCount |-> list[i].repliesCount,
         likesCount   |-> list[i].likesCount,
         replies      |-> Outline(list[i].replies)]]

\* C21: for the same store, the replies of every item of a page of
\* paginatedComments are the result of replies(item id), and page 1 with a
\* limit that is at least the total is the result of comments(postId): the
\* same nodes in the same order with the same repliesCount and likesCount.
C21_PageIsTreeOfLevel ==
    Served("paginatedComments") =>
        /\ \A i \in 1..Len(last.result.comments) :
              last.result.comments[i].replies
                = RepliesQuery(comments, last.ctx, last.result.comments[i]._id).result
        /\ LET full == CommentsQuery(comments, last.ctx, last.args.postId)
           IN  (PageAsked = 1 /\ LimitAsked >= last.result.totalComments)
               => /\ full.error = ""
                  /\ Outline(last.result.comments) = Outline(full.result)

\* The stored top-level comments of a post.
TopLevelOf(store, postId) ==
    {c \in DOMAIN store : store[c].post = postId /\ store[c].parentId = Null}

\* C22: whatever comments were added and deleted before, the commentsCount
\* that the posts listing reports for a post and the commentsCount of the
\* single post view are the number of top-level comments the post has in
\* the store when the read is served, so that the two agree.
C22_CommentsCountCurrent ==
    /\ Served("posts") =>
          \A i \in 1..Len(last.result.posts) :
              last.result.posts[i].commentsCount
                = Cardinality(TopLevelOf(comments, last.result.posts[i]._id))
    /\ Served("post") =>
          /\ last.result.commentsCount
                = Cardinality(TopLevelOf(comments, last.args.postId))
          /\ last.result.commentsCount
                = MapPostData(comments, last.args.postId).commentsCount

\* The posts listing served after a delete, for a post that keeps one
\* top-level comment and a reply.
C22_Witness ==
    /\ Served("posts")
    /\ nextId > Cardinality(DOMAIN comments) + 1
    /\ \E i \in 1..Len(last.result.posts) :
          /\ last.result.posts[i].commentsCount = 1
          /\ \E c \in DOMAIN comments :
                /\ comments[c].post = last.result.posts[i]._id
                /\ comments[c].parentId # Null

\* The fields of a stored comment that are fixed at creation.
Identity(doc) ==
    [post |-> doc.post, creator |-> doc.creator, parentId |-> doc.parentId]

\* C23: a comment that stays in the store keeps its post, creator and
\* parentId whatever call is served; updateComment, likeComment and
\* unlikeComment add and remove no comment and change no comment but the
\* target; updateComment leaves the target's likes as they were, and
\* likeComment and unlikeComment leave its content as it was.
C23_FrameOfUpdates ==
    /\ \A c \in DOMAIN pre \cap DOMAIN comments :
          Identity(comments[c]) = Identity(pre[c])
    /\ last.op \in {"updateComment", "likeComment", "unlikeComment"} =>
          /\ DOMAIN comments = DOMAIN pre
          /\ \A c \in DOMAIN pre : c # Target => comments[c] = pre[c]
          /\ Target \in DOMAIN pre =>
                /\ last.op = "updateComment" =>
                      comments[Target].likes = pre[Target].likes
                /\ last.op # "updateComment" =>
                      comments[Target].content = pre[Target].content

\* An edit that changed the content of a liked comment whose creator has
\* another comment in the store.
C23_Witness ==
    /\ Served("updateComment")
    /\ comments[Target].content # pre[Target].content
    /\ comments[Target].likes # << >>
    /\ \E c \in DOMAIN comments :
          c # Target /\ comments[c].creator = comments[Target].creator

\* C24: a read by an authenticated caller whose target does not exist
\* returns an error: replies and paginatedReplies of a commentId that no
\* stored comment has, comments and paginatedComments of a postId that no
\* post has.
C24_MissingTargetOfReadRejected ==
    last.ctx.isAuth =>
        /\ (/\ last.op \in {"replies", "paginatedReplies"}
            /\ Target \notin DOMAIN pre) => last.error # ""
        /\ (/\ last.op \in {"comments", "paginatedComments"}
            /\ last.args.postId \notin Posts) => last.error # ""

\* The last call stored one new comment, with the given post and parent,
\* and returned it.
StoredNew(postId, parentId) ==
    /\ last.error = ""
    /\ \E id \in DOMAIN comments \ DOMAIN pre :
          /\ DOMAIN comments = DOMAIN pre \cup {id}
          /\ comments[id].post = postId
          /\ comments[id].parentId = parentId
          /\ last.result._id = id

\* C25: addReply(postId, commentId) by an existing user with non-blank
\* content succeeds whenever the parent comment exists, and addComment(postId,
\* parentId) whenever the post and the parent comment exist, whatever post
\* the parent belongs to; the reply is stored with the post of the call and
\* the parent of the call. In the tree of comments(postId) a stored comment
\* with a stored parent appears exactly when its parent appears, whatever
\* its own post.
C25_ParentPostUnchecked ==
    /\ (/\ last.op = "addReply"
        /\ last.ctx.isAuth
        /\ UserExists(Requester)
        /\ ~IsBlank(last.args.content)
        /\ Target \in DOMAIN pre) => StoredNew(last.args.postId, Target)
    /\ (/\ last.op = "addComment"
        /\ last.ctx.isAuth
        /\ UserExists(Requester)
        /\ ~IsBlank(last.args.content)
        /\ last.args.postId \in Posts
        /\ last.args.parentId \in DOMAIN pre)
            => StoredNew(last.args.postId, last.args.parentId)
    /\ Served("comments") =>
          LET shown == {n._id : n \in AllNodes(last.result)} IN
          \A c \in DOMAIN comments :
              comments[c].parentId \in DOMAIN comments
                  => (c \in shown <=> comments[c].parentId \in shown)

\* comments(P) shows, below a top-level comment of P, a reply that was
\* stored with another post.
C25_Witness ==
    /\ Served("comments")
    /\ \E n \in AllNodes(last.result) :
          /\ comments[n._id].post # last.args.postId
          /\ comments[n._id].parentId # Null

\* The list carries each id of S once and nothing else.
ListsIds(ids, S) == Range(ids) = S /\ Len(ids) = Cardinality(S)

\* C26: for every stored comment, getAllDescendantIds returns a list that
\* carries every comment below it once, and neither the comment itself nor
\* a comment that is not below it; of the store and the target of a served
\* deleteComment too.
C26_DescendantsOnce ==
    /\ \A c \in DOMAIN comments :
          ListsIds(GetAllDescendantIds(comments, c), Subtree(comments, c) \ {c})
    /\ Served("deleteComment") =>
          ListsIds(GetAllDescendantIds(pre, Target), Subtree(pre, Target) \ {Target})

\* A deleteComment served for a comment with a child and a grandchild.
C26_Witness ==
    /\ Served("deleteComment")
    /\ \E x, y \in DOMAIN pre :
          /\ pre[x].parentId = Target
          /\ pre[y].parentId = x
          /\ GetAllDescendantIds(pre, Target) = <<x, y>>

\* Request p takes its save step and the step writes to the store.
Writes(p) ==
    /\ procs[p].op \in {"likeComment", "unlikeComment"}
    /\ procs[p].pc = "loaded"
    /\ procs'[p].pc = "saved"
    /\ ~(/\ procs[p].op = "likeComment"
         /\ ArrayIncludes(procs[p].doc.likes, procs[p].ctx.userId))

Others(likes, u) == SelectSeq(likes, LAMBDA x : x # u)

\* C27 as stated: the write of a likeComment or unlikeComment request puts
\* the likes of the request's own copy, as read and then modified, in the
\* place of the stored likes, so that the later of two writes decides.
C27_LastWriterWins ==
    [][\A p \in Procs :
          Writes(p) => comments'[procs[p].commentId].likes = procs'[p].doc.likes]_vars

\* C27, amended: the write of a likeComment request appends the caller to
\* the stored likes and the write of an unlikeComment request removes the
\* caller from them; the entries of every other user, written by whatever
\* request since this one read, stay as they are stored.
C27_WritesKeepOthers ==
    [][\A p \in Procs :
          Writes(p) =>
              LET c == procs[p].commentId
                  u == procs[p].ctx.userId
              IN  /\ Others(comments'[c].likes, u) = Others(comments[c].likes, u)
                  /\ procs[p].op = "likeComment" =>
                        comments'[c].likes = Append(comments[c].likes, u)
                  /\ procs[p].op = "unlikeComment" =>
                        ~ArrayIncludes(comments'[c].likes, u)
                  /\ \A d \in DOMAIN comments : d # c => comments'[d] = comments[d]]_vars

\* Two likeComment requests of two users read the same empty likes of the
\* same comment, both have written, and the stored likes hold both users.
C27_Witness ==
    \E p, q \in Procs :
        /\ p # q
        /\ procs[p].op = "likeComment" /\ procs[q].op = "likeComment"
        /\ procs[p].pc \in {"saved", "done"} /\ procs[q].pc \in {"saved", "done"}
        /\ procs[p].commentId = procs[q].commentId
        /\ procs[p].ctx.userId # procs[q].ctx.userId
        /\ procs[p].doc.likes = <<procs[p].ctx.userId>>
        /\ procs[q].doc.likes = <<procs[q].ctx.userId>>
        /\ procs[p].commentId \in DOMAIN comments
        /\ LikedBy(comments, procs[p].commentId)
              = {procs[p].ctx.userId, procs[q].ctx.userId}

\* The comments a deleteComment request is to remove: the ids it collected
\* and its target.
Condemned(p) == Range(procs[p].ids) \cup {procs[p].commentId}

\* C28: whatever likeComment and updateComment requests run along with a
\* deleteComment request, the descendants the request collected are absent
\* once its deleteMany was done, and they and the target are absent once it
\* has returned true: no save of a like or an edit puts a removed comment
\* back. A like or an edit that returns without error after its comment
\* was removed has left nothing in the store.
C28_RemovedStaysRemoved ==
    \A p \in Procs :
        /\ (procs[p].op = "deleteComment" /\ procs[p].pc = "deletedMany")
              => Range(procs[p].ids) \cap DOMAIN comments = {}
        /\ (procs[p].op = "deleteComment" /\ procs[p].pc = "done"
                                          /\ procs[p].error = "")
              => Condemned(p) \cap DOMAIN comments = {}

\* A likeComment or updateComment request found its comment D, a
\* deleteComment of an ancestor of D then removed D and returned, and the
\* save of the like or the edit found no document: its effect is lost.
C28_Witness ==
    \E p, q \in Procs :
        /\ procs[p].op = "deleteComment" /\ procs[p].pc = "done"
        /\ procs[p].error = ""
        /\ procs[q].op \in {"likeComment", "updateComment"}
        /\ procs[q].pc = "done"
        /\ procs[q].error = "No document found"
        /\ procs[q].commentId \in Range(procs[p].ids)
        /\ procs[q].commentId \notin DOMAIN comments

\* C29: once a deleteComment request has returned true, whatever addReply
\* and addComment requests ran along with it, no stored comment is below a
\* comment the request removed: no stored comment has the target or a
\* removed descendant among the ids its parentId chain leads to.
C29_NothingLeftBelow ==
    \A p \in Procs :
        (procs[p].op = "deleteComment" /\ procs[p].pc = "done" /\ procs[p].error = "")
            => \A x \in DOMAIN comments :
                   Ancestors(comments, x) \cap Condemned(p) = {}

\* C30: in the tree a replies request returns, whatever addComment and
\* addReply requests ran along with it, every node at every depth has a
\* repliesCount that is the length of its replies.
C30_CountIsLengthUnderRace ==
    \A p \in Procs :
        (procs[p].op = "replies" /\ procs[p].pc = "done" /\ procs[p].error = "")
            => \A n \in AllNodes(procs[p].result) :
                   n.repliesCount = Len(n.replies)

====
